---- MODULE Spec2Model ----
(***************************************************************************)
(* rjsone: the context argument parser (parseContexts, parseContent,       *)
(* parseFormat), the content loaders (loadBytes and the load methods of    *)
(* the five content variants), the function bridge and loadContext.        *)
(*                                                                         *)
(* Strings are sequences of one-character strings, so that every split,    *)
(* prefix test and slice of the Go code is computed on the characters.     *)
(***************************************************************************)
EXTENDS Integers, Sequences, FiniteSets, TLC

VARIABLES
    rawContexts,   \* the arguments handed to parseContexts so far, in order
    contexts,      \* parseContexts: the slice of top-level contexts
    lc,            \* parseContexts: the current list (index in contexts), 0 = nil
    placed,        \* observer: for each argument, where its context was put
    pc,            \* "parse", "load", "done" (loadContext returned a context), "failed"
    deepMerge,     \* args.deepMerge
    next,          \* loadContext: index of the next top-level context to evaluate
    finalContext,  \* loadContext: the map built so far
    evaluated,     \* observer: the value each evaluated top-level context gave
    returned,      \* what loadContext returned: [context, err]
    stdin,         \* os.Stdin: the bytes not read yet and the reads made; with
                   \* them evals, the contexts whose eval() was called, in call order
    callable,      \* function bridge: the content whose callable is under call
    calls,         \* observer: one record per call of the callable
    template,      \* run: the documents of the template stream not decoded yet
    output,        \* run: the documents written to the output so far
    files          \* run: what the arguments name of the template file, the output
                   \* file and the YAML encoder, what run opened of them, and
                   \* the ones whose Close returned an error

vars == <<rawContexts, contexts, lc, placed, pc, deepMerge, next, finalContext,
          evaluated, returned, stdin, callable, calls, template, output, files>>

\* the variables of the rendering loop of run
runVars == <<template, output, files>>

----------------------------------------------------------------------------
(* Bounds of the model *)

MaxArgs == 3
MaxCalls == 2
MaxDocs == 3
MaxKvLen == 6

----------------------------------------------------------------------------
(* Go's strings package, on character sequences *)

HasPrefix(s, prefix) ==
    /\ Len(s) >= Len(prefix)
    /\ SubSeq(s, 1, Len(prefix)) = prefix

HasSuffix(s, suffix) ==
    /\ Len(s) >= Len(suffix)
    /\ SubSeq(s, Len(s) - Len(suffix) + 1, Len(s)) = suffix

\* s[n:]
From(s, n) == SubSeq(s, n + 1, Len(s))

\* strings.Index for a one-character separator, 1-based; 0 when absent
Index(s, c) ==
    IF \E i \in 1..Len(s) : s[i] = c
    THEN CHOOSE i \in 1..Len(s) : s[i] = c /\ \A j \in 1..(i - 1) : s[j] # c
    ELSE 0

LastIndex(s, c) ==
    IF \E i \in 1..Len(s) : s[i] = c
    THEN CHOOSE i \in 1..Len(s) : s[i] = c /\ \A j \in (i + 1)..Len(s) : s[j] # c
    ELSE 0

\* strings.SplitN(s, sep, 2)
SplitN2(s, sep) ==
    LET i == Index(s, sep)
    IN  IF i = 0 THEN <<s>> ELSE <<SubSeq(s, 1, i - 1), From(s, i)>>

\* strings.Split(s, sep)
RECURSIVE Split(_, _)
Split(s, sep) ==
    LET i == Index(s, sep)
    IN  IF i = 0 THEN <<s>> ELSE <<SubSeq(s, 1, i - 1)>> \o Split(From(s, i), sep)

TrimSuffix(s, suffix) ==
    IF HasSuffix(s, suffix) THEN SubSeq(s, 1, Len(s) - Len(suffix)) ELSE s

----------------------------------------------------------------------------
(* Values of the template language (Go interface{} as JSON-e sees it) *)

Null == [t |-> "null"]
Str(s) == [t |-> "str", s |-> s]
Num(n) == [t |-> "num", n |-> n]
Map(m) == [t |-> "map", m |-> m]
List(l) == [t |-> "list", l |-> l]

EmptyMap == [k \in {} |-> Null]

IsMap(v) == v.t = "map"
IsStr(v) == v.t = "str"

NoErr == [kind |-> "", detail |-> <<>>]
Error(kind, detail) == [kind |-> kind, detail |-> detail]

Ok(v) == [val |-> v, err |-> NoErr]
Fail(e) == [val |-> Null, err |-> e]
Failed(r) == r.err # NoErr

----------------------------------------------------------------------------
(* The codecs behind loadBytes.  encoding/json and the YAML library are     *)
(* modelled on the subset of documents the model feeds them: objects with   *)
(* quoted keys, arrays, quoted strings, unsigned integers, and (YAML only)  *)
(* one-word plain scalars and the empty document.  Any other byte sequence  *)
(* the model presents is one both codecs reject.                            *)

Whitespace == {" ", "\n"}
Digits == {"0", "1", "2", "3", "4", "5", "6", "7", "8", "9"}
DigitValue(c) ==
    CASE c = "0" -> 0 [] c = "1" -> 1 [] c = "2" -> 2 [] c = "3" -> 3
      [] c = "4" -> 4 [] c = "5" -> 5 [] c = "6" -> 6 [] c = "7" -> 7
      [] c = "8" -> 8 [] c = "9" -> 9

\* a decoder position: the value read and the index of the next character
At(v, p) == [ok |-> TRUE, val |-> v, pos |-> p]
Bad == [ok |-> FALSE, val |-> Null, pos |-> 0]

RECURSIVE SkipWs(_, _)
SkipWs(s, p) == IF p <= Len(s) /\ s[p] \in Whitespace THEN SkipWs(s, p + 1) ELSE p

Is(s, p, c) == p <= Len(s) /\ s[p] = c

\* s[p] is the opening quote
jsonString(s, p) ==
    LET q == Index(From(s, p), "\"")
    IN  IF q = 0 THEN Bad ELSE At(Str(SubSeq(s, p + 1, p + q - 1)), p + q + 1)

RECURSIVE jsonNumber(_, _, _)
jsonNumber(s, p, n) ==
    IF p <= Len(s) /\ s[p] \in Digits
    THEN jsonNumber(s, p + 1, n * 10 + DigitValue(s[p]))
    ELSE At(Num(n), p)

RECURSIVE jsonValue(_, _), jsonMembers(_, _, _), jsonElements(_, _, _)

\* the value that starts at the non-blank position p
jsonValueAt(s, p) ==
    CASE Is(s, p, "{") ->
           IF Is(s, SkipWs(s, p + 1), "}")
           THEN At(Map(EmptyMap), SkipWs(s, p + 1) + 1)
           ELSE jsonMembers(s, p + 1, EmptyMap)
      [] Is(s, p, "[") ->
           IF Is(s, SkipWs(s, p + 1), "]")
           THEN At(List(<<>>), SkipWs(s, p + 1) + 1)
           ELSE jsonElements(s, p + 1, <<>>)
      [] Is(s, p, "\"") -> jsonString(s, p)
      [] p <= Len(s) /\ s[p] \in Digits -> jsonNumber(s, p, 0)
      [] OTHER -> Bad

jsonValue(s, p0) == jsonValueAt(s, SkipWs(s, p0))

\* after a member or element ending before position e: "," goes on, the closer ends
jsonMembersEnd(s, e, m) ==
    CASE Is(s, e, ",") -> jsonMembers(s, e + 1, m)
      [] Is(s, e, "}") -> At(Map(m), e + 1)
      [] OTHER -> Bad

jsonMemberValue(s, key, v, m) ==
    IF v.ok THEN jsonMembersEnd(s, SkipWs(s, v.pos), (key :> v.val) @@ m) ELSE Bad

jsonMemberKey(s, k, m) ==
    IF k.ok /\ Is(s, SkipWs(s, k.pos), ":")
    THEN jsonMemberValue(s, k.val.s, jsonValue(s, SkipWs(s, k.pos) + 1), m)
    ELSE Bad

jsonKeyAt(s, p) == IF Is(s, p, "\"") THEN jsonString(s, p) ELSE Bad

\* the members of an object after "{" or ",": "key": value, later keys winning
jsonMembers(s, p0, m) == jsonMemberKey(s, jsonKeyAt(s, SkipWs(s, p0)), m)

jsonElementsEnd(s, e, l) ==
    CASE Is(s, e, ",") -> jsonElements(s, e + 1, l)
      [] Is(s, e, "]") -> At(List(l), e + 1)
      [] OTHER -> Bad

jsonElement(s, v, l) ==
    IF v.ok THEN jsonElementsEnd(s, SkipWs(s, v.pos), Append(l, v.val)) ELSE Bad

jsonElements(s, p0, l) == jsonElement(s, jsonValue(s, p0), l)

\* a decoded document: one value with nothing but white space after it
jsonWhole(data, v) == v.ok /\ SkipWs(data, v.pos) = Len(data) + 1

jsonDocument(data, v) ==
    IF jsonWhole(data, v) THEN Ok(v.val) ELSE Fail(Error("json", data))

\* json.Unmarshal(data, &result)
jsonUnmarshal(data) == jsonDocument(data, jsonValue(data, 1))

YamlIndicators == {"{", "}", "[", "]", ",", "\"", ":", "#", "-", "+", "."} \cup Whitespace

\* a plain one-word scalar: no indicator first, no flow or quote character inside
yamlPlain(data) ==
    /\ data # <<>>
    /\ data[1] \notin YamlIndicators
    /\ \A i \in 1..Len(data) :
           data[i] \notin ({"{", "}", "[", "]", ",", "\"", "#"} \cup Whitespace)
    /\ data[Len(data)] # ":"

yamlDocument(data, v) ==
    CASE SkipWs(data, 1) = Len(data) + 1 -> Ok(Null)
      [] jsonWhole(data, v) -> Ok(v.val)
      [] yamlPlain(data) -> Ok(Str(data))
      [] OTHER -> Fail(Error("yaml", data))

\* yaml_ghodss.Unmarshal(data, &result)
yamlUnmarshal(data) == yamlDocument(data, jsonValue(data, 1))

----------------------------------------------------------------------------
(* The argument parser *)

yamlFormat == <<"y", "a", "m", "l">>
jsonFormat == <<"j", "s", "o", "n">>
kvFormat == <<"k", "v">>
textFormat == <<"t", "e", "x", "t">>

\* the five content variants
listContent(childFormat, showMetadata) ==
    [kind |-> "list", contexts |-> <<>>, showMetadata |-> showMetadata,
     childFormat |-> childFormat]
textContent(format, text) == [kind |-> "text", format |-> format, text |-> text]
\* the zero value of stdinContent.format is the empty string
stdinContent == [kind |-> "stdin", format |-> <<>>]
functionContent(rawInput, rawOutput, function) ==
    [kind |-> "function", function |-> function, rawOutput |-> rawOutput,
     rawInput |-> rawInput]
fileContent(format, filename) ==
    [kind |-> "file", format |-> format, filename |-> filename]

\* a nil *listContent
NilList == [kind |-> "nil"]

\* mutant: a single leading colon already means text, as two colons do
parseFormat_colonIsText(content) ==
    IF ~HasPrefix(content, <<":">>)
    THEN [isNil |-> TRUE, format |-> <<>>, data |-> content]
    ELSE IF HasPrefix(From(content, 1), <<"+">>)
    THEN [isNil |-> FALSE, format |-> yamlFormat, data |-> From(content, 1)]
    ELSE IF Len(SplitN2(From(content, 1), ":")) = 1
    THEN [isNil |-> FALSE, format |-> <<>>, data |-> From(content, 1)]
    ELSE [isNil |-> FALSE, format |-> SplitN2(From(content, 1), ":")[1],
          data |-> SplitN2(From(content, 1), ":")[2]]

\* mutant: a + after the colon does not keep the content from being split at
\* the next colon
parseFormat_plusSplit(content) ==
    IF ~HasPrefix(content, <<":">>)
    THEN [isNil |-> TRUE, format |-> <<>>, data |-> content]
    ELSE IF Len(SplitN2(From(content, 1), ":")) = 1
    THEN [isNil |-> TRUE, format |-> <<>>, data |-> From(content, 1)]
    ELSE [isNil |-> FALSE, format |-> SplitN2(From(content, 1), ":")[1],
          data |-> SplitN2(From(content, 1), ":")[2]]

\* parseFormat: [isNil, format] for the *inputFormat, and the data
parseFormat(content) ==
    IF ~HasPrefix(content, <<":">>)
    THEN [isNil |-> TRUE, format |-> <<>>, data |-> content]
    ELSE LET rest == From(content, 1)
             splitContent == SplitN2(rest, ":")
         IN  IF HasPrefix(rest, <<"+">>)
             THEN [isNil |-> FALSE, format |-> yamlFormat, data |-> rest]
             ELSE IF Len(splitContent) = 1
             THEN [isNil |-> TRUE, format |-> <<>>, data |-> splitContent[1]]
             ELSE [isNil |-> FALSE, format |-> splitContent[1],
                   data |-> splitContent[2]]

\* mutant: under an open list the list's child format wins over the argument's own
resolveFormat_listWins(content, list) ==
    IF list # NilList THEN list.childFormat
    ELSE IF parseFormat(content).isNil THEN yamlFormat
    ELSE IF parseFormat(content).format = <<>> THEN textFormat
    ELSE parseFormat(content).format

\* mutant: without a format the default is YAML also under an open list
resolveFormat_ignoresList(content, list) ==
    IF parseFormat(content).isNil THEN yamlFormat
    ELSE IF parseFormat(content).format = <<>> THEN textFormat
    ELSE parseFormat(content).format

\* the format parseContent resolves before it looks at the data
resolveFormat(content, list) ==
    LET f == parseFormat(content)
    IN  IF f.isNil
        THEN IF list = NilList THEN yamlFormat ELSE list.childFormat
        ELSE IF f.format = <<>> THEN textFormat ELSE f.format

\* mutant: rawInput and rawOutput of a function are taken from each other's source
parseContent_rawSwapped(content, list) ==
    LET data == parseFormat(content).data
        format == resolveFormat(content, list)
    IN  CASE data = <<".", ".">> -> listContent(format, FALSE)
          [] data = <<".", ".", ".">> -> listContent(format, TRUE)
          [] HasPrefix(data, <<"+">>) -> textContent(format, From(data, 1))
          [] data = <<"-">> -> stdinContent
          [] HasPrefix(data, <<"-", "-">>) ->
               functionContent(TRUE, format = textFormat, From(data, 2))
          [] HasPrefix(data, <<"-">>) ->
               functionContent(FALSE, format = textFormat, From(data, 1))
          [] OTHER -> fileContent(format, data)

\* mutant: every data token that starts with two dots opens a list
parseContent_dotsPrefix(content, list) ==
    LET data == parseFormat(content).data
        format == resolveFormat(content, list)
    IN  CASE data = <<".", ".", ".">> -> listContent(format, TRUE)
          [] HasPrefix(data, <<".", ".">>) -> listContent(format, FALSE)
          [] HasPrefix(data, <<"+">>) -> textContent(format, From(data, 1))
          [] data = <<"-">> -> stdinContent
          [] HasPrefix(data, <<"-", "-">>) ->
               functionContent(format = textFormat, TRUE, From(data, 2))
          [] HasPrefix(data, <<"-">>) ->
               functionContent(format = textFormat, FALSE, From(data, 1))
          [] OTHER -> fileContent(format, data)

parseContent(content, list) ==
    LET data == parseFormat(content).data
        format == resolveFormat(content, list)
    IN  CASE data = <<".", ".">> -> listContent(format, FALSE)
          [] data = <<".", ".", ".">> -> listContent(format, TRUE)
          [] HasPrefix(data, <<"+">>) -> textContent(format, From(data, 1))
          [] data = <<"-">> -> stdinContent
          [] HasPrefix(data, <<"-", "-">>) ->
               functionContent(format = textFormat, TRUE, From(data, 2))
          [] HasPrefix(data, <<"-">>) ->
               functionContent(format = textFormat, FALSE, From(data, 1))
          [] OTHER -> fileContent(format, data)

\* mutant: a leading + does not keep the argument from being split at a colon
splitKey_plusSplit(rawContext) ==
    IF Len(SplitN2(rawContext, ":")) < 2
    THEN [key |-> <<>>, rawContent |-> SplitN2(rawContext, ":")[1]]
    ELSE [key |-> SplitN2(rawContext, ":")[1],
          rawContent |-> <<":">> \o SplitN2(rawContext, ":")[2]]

\* the key and raw content parseContexts takes from one argument
splitKey(rawContext) ==
    LET splitContext == SplitN2(rawContext, ":")
    IN  IF HasPrefix(rawContext, <<"+">>)
        THEN [key |-> <<>>, rawContent |-> rawContext]
        ELSE IF Len(splitContext) < 2
        THEN [key |-> <<>>, rawContent |-> splitContext[1]]
        ELSE [key |-> splitContext[1], rawContent |-> <<":">> \o splitContext[2]]

\* mutant: a key does not close the current list
listAfterKey_keepsList(key, cur) == cur

\* lc as the loop body sees it after "if key != ''": an index in cs, 0 for nil
listAfterKey(key, cur) == IF key # <<>> THEN 0 ELSE cur

\* the context one loop iteration of parseContexts builds
parseOne(rawContext, cs, cur) ==
    LET k == splitKey(rawContext)
        l == listAfterKey(k.key, cur)
    IN  [original |-> rawContext, key |-> k.key,
         content |-> parseContent(k.rawContent, IF l = 0 THEN NilList ELSE cs[l].content)]

\* mutant: a list met while a list is open becomes a child of the open list
placeAt_nestsLists(parsedContext, cs, l) ==
    IF l # 0
    THEN [lc |-> l, top |-> l, child |-> Len(cs[l].content.contexts) + 1]
    ELSE [lc |-> IF parsedContext.content.kind = "list" THEN Len(cs) + 1 ELSE 0,
          top |-> Len(cs) + 1, child |-> 0]

\* where one loop iteration puts the context: as top-level context number top
\* (child = 0) or as child number child of the list top; lc is the list then current
placeAt(parsedContext, cs, l) ==
    IF parsedContext.content.kind = "list"
    THEN [lc |-> Len(cs) + 1, top |-> Len(cs) + 1, child |-> 0]
    ELSE IF l # 0
    THEN [lc |-> l, top |-> l, child |-> Len(cs[l].content.contexts) + 1]
    ELSE [lc |-> 0, top |-> Len(cs) + 1, child |-> 0]

\* mutant: an empty argument is stepped over and leaves no context
appendContext_skipsEmpty(parsedContext, cs, at) ==
    IF parsedContext.original = <<>> THEN cs
    ELSE IF at.child = 0 THEN Append(cs, parsedContext)
    ELSE [cs EXCEPT ![at.top].content.contexts = Append(@, parsedContext)]

\* the contexts after the append of one loop iteration
appendContext(parsedContext, cs, at) ==
    IF at.child = 0 THEN Append(cs, parsedContext)
    ELSE [cs EXCEPT ![at.top].content.contexts = Append(@, parsedContext)]

----------------------------------------------------------------------------
(* The file system the program runs in: path -> bytes; other paths do not   *)
(* exist.                                                                   *)

Files ==
    (<<"f">> :> <<"{", "\"", "x", "\"", ":", "1", ",", "\"", "y", "\"", ":",
                  "{", "\"", "a", "\"", ":", "1", "}", "}">>)
    @@ (<<"g">> :> <<"{", "\"", "y", "\"", ":", "{", "\"", "b", "\"", ":", "2", "}", "}">>)
    @@ (<<"d", "/", "a", ".", "b">> :> <<"f", "o", "o">>)
    @@ (<<"e">> :> <<"k", " ", "v", " ", "w", "\n", "\n", "k", " ", "u", "\n">>)
    @@ (<<"b">> :> <<"{">>)

\* ioutil.ReadFile
ReadFile(filename) ==
    IF filename \in DOMAIN Files
    THEN [data |-> Files[filename], err |-> NoErr]
    ELSE [data |-> <<>>, err |-> Error("ENOENT", filename)]

\* path.Base
Base(path) ==
    LET stripped == CHOOSE t \in {SubSeq(path, 1, n) : n \in 0..Len(path)} :
                        /\ \A i \in (Len(t) + 1)..Len(path) : path[i] = "/"
                        /\ (t = <<>> \/ t[Len(t)] # "/")
        last == From(stripped, LastIndex(stripped, "/"))
    IN  IF path = <<>> THEN <<".">>
        ELSE IF last = <<>> THEN <<"/">>
        ELSE last

\* filepath.Ext
Ext(path) ==
    LET dot == LastIndex(path, ".")
    IN  IF dot > LastIndex(path, "/") THEN From(path, dot - 1) ELSE <<>>

----------------------------------------------------------------------------
(* Loading *)

\* the kv loop of loadBytes over lines[i..]
RECURSIVE kvLines(_, _, _)

\* mutant: the first line with a key wins
kvLine_firstWins(lines, i, result, line, splitLine) ==
    IF line = <<>> THEN kvLines(lines, i + 1, result)
    ELSE IF Len(splitLine) # 2 THEN Fail(Error("kv", line))
    ELSE kvLines(lines, i + 1, result @@ (splitLine[1] :> Str(splitLine[2])))

kvLine(lines, i, result, line, splitLine) ==
    IF line = <<>> THEN kvLines(lines, i + 1, result)
    ELSE IF Len(splitLine) # 2 THEN Fail(Error("kv", line))
    ELSE kvLines(lines, i + 1, (splitLine[1] :> Str(splitLine[2])) @@ result)

kvLines(lines, i, result) ==
    IF i > Len(lines) THEN Ok(Map(result))
    ELSE kvLine(lines, i, result, lines[i], SplitN2(lines[i], " "))

\* mutant: the text format is decoded like YAML
loadBytes_textDecoded(format, data) ==
    CASE format = jsonFormat -> jsonUnmarshal(data)
      [] format = yamlFormat -> yamlUnmarshal(data)
      [] format = textFormat -> yamlUnmarshal(data)
      [] format = kvFormat -> kvLines(Split(data, "\n"), 1, EmptyMap)
      [] OTHER -> Fail(Error("format", format))

loadBytes(format, data) ==
    CASE format = jsonFormat -> jsonUnmarshal(data)
      [] format = yamlFormat -> yamlUnmarshal(data)
      [] format = textFormat -> Ok(Str(data))
      [] format = kvFormat -> kvLines(Split(data, "\n"), 1, EmptyMap)
      [] OTHER -> Fail(Error("format", format))

\* the metadata method of each content variant
metadata(content) ==
    IF content.kind = "file"
    THEN LET basename == Base(content.filename)
         IN  (<<"f", "i", "l", "e", "n", "a", "m", "e">> :> Str(content.filename))
             @@ (<<"b", "a", "s", "e", "n", "a", "m", "e">> :> Str(basename))
             @@ (<<"n", "a", "m", "e">> :> Str(TrimSuffix(basename, Ext(basename))))
    ELSE EmptyMap

\* mergo.Merge(&dst, src) and mergo.Merge(&dst, src, mergo.WithOverride) on maps
RECURSIVE mergoMerge(_, _, _)
mergoMerge(dst, src, overwrite) ==
    [k \in DOMAIN dst \cup DOMAIN src |->
        IF k \notin DOMAIN src THEN dst[k]
        ELSE IF k \notin DOMAIN dst THEN src[k]
        ELSE IF IsMap(dst[k]) /\ IsMap(src[k])
        THEN Map(mergoMerge(dst[k].m, src[k].m, overwrite))
        ELSE IF overwrite THEN src[k] ELSE dst[k]]

\* the callable functionContent.load wraps: the closure and what it captured
Callable(fc) ==
    [t |-> "func", rawInput |-> fc.rawInput, rawOutput |-> fc.rawOutput,
     commandArray |-> Split(fc.function, " ")]

contentKey == <<"c", "o", "n", "t", "e", "n", "t">>
filenameKey == <<"f", "i", "l", "e", "n", "a", "m", "e">>
basenameKey == <<"b", "a", "s", "e", "n", "a", "m", "e">>
nameKey == <<"n", "a", "m", "e">>

\* mutant: the metadata is never added
listElement_bare(showMetadata, result, child) == result

\* one element of the list listContent.load builds
listElement(showMetadata, result, child) ==
    IF ~showMetadata THEN result
    ELSE Map(mergoMerge((contentKey :> result), metadata(child.content), FALSE))

\* a result together with the state of os.Stdin after it
With(r, in) == [val |-> r.val, err |-> r.err, stdin |-> in]

\* fileContent.load after ioutil.ReadFile returned r
loadFile(format, r) == IF r.err # NoErr THEN Fail(r.err) ELSE loadBytes(format, r.data)

\* mutant: a result without a key is wrapped under the empty key
wrapKey_emptyKey(key, r) ==
    IF r.err # NoErr THEN With(Fail(r.err), r.stdin)
    ELSE With(Ok(Map(key :> r.val)), r.stdin)

\* context.eval after c.content.load() returned r
wrapKey(key, r) ==
    IF r.err # NoErr THEN With(Fail(r.err), r.stdin)
    ELSE IF key # <<>> THEN With(Ok(Map(key :> r.val)), r.stdin)
    ELSE r

\* content.load() and context.eval(), with os.Stdin and the trace of eval()
\* calls threaded through: in is the state before, the result carries the state after
RECURSIVE load(_, _), loadList(_, _, _, _)

\* mutant: a child that fails to load is left out and the loop goes on
loadChild_continues(lcontent, i, outputList, r) ==
    IF r.err # NoErr THEN loadList(lcontent, i + 1, outputList, r.stdin)
    ELSE loadList(lcontent, i + 1,
                  Append(outputList,
                         listElement(lcontent.showMetadata, r.val, lcontent.contexts[i])),
                  r.stdin)

\* mutant: the loop steps over the child after each one it evaluates
loadChild_skipsNext(lcontent, i, outputList, r) ==
    IF r.err # NoErr THEN With(Fail(r.err), r.stdin)
    ELSE loadList(lcontent, i + 2,
                  Append(outputList,
                         listElement(lcontent.showMetadata, r.val, lcontent.contexts[i])),
                  r.stdin)

\* the body of the loop of listContent.load, after child i evaluated to r
loadChild(lcontent, i, outputList, r) ==
    IF r.err # NoErr THEN With(Fail(r.err), r.stdin)
    ELSE loadList(lcontent, i + 1,
                  Append(outputList,
                         listElement(lcontent.showMetadata, r.val, lcontent.contexts[i])),
                  r.stdin)

load(content, in) ==
    CASE content.kind = "file" ->
           With(loadFile(content.format, ReadFile(content.filename)), in)
      [] content.kind = "stdin" ->
           With(loadBytes(content.format, in.bytes),
                [in EXCEPT !.bytes = <<>>, !.reads = @ + 1])
      [] content.kind = "text" -> With(loadBytes(content.format, content.text), in)
      [] content.kind = "function" -> With(Ok(Callable(content)), in)
      [] content.kind = "list" -> loadList(content, 1, <<>>, in)

eval(c, in) == wrapKey(c.key, load(c.content, [in EXCEPT !.evals = Append(@, c.original)]))

\* the loop of listContent.load from child i on
loadList(lcontent, i, outputList, in) ==
    IF i > Len(lcontent.contexts) THEN With(Ok(List(outputList)), in)
    ELSE loadChild(lcontent, i, outputList, eval(lcontent.contexts[i], in))

----------------------------------------------------------------------------
(* The function bridge: the four closures functionContent.load builds *)

\* the model's characters in ASCII order, for the sorted keys of json.Marshal
Ascii == <<"\n", " ", "\"", "+", ",", "-", ".", "/", "0", "1", "2", "3", "4", "5",
           "6", "7", "8", "9", ":", "[", "]", "a", "b", "c", "d", "e", "f", "g",
           "h", "i", "j", "k", "l", "m", "n", "o", "p", "q", "r", "s", "t", "u",
           "v", "w", "x", "y", "z", "{", "}">>
Code(c) == Index(Ascii, c)

RECURSIVE Less(_, _)
Less(a, b) ==
    IF a = <<>> THEN b # <<>>
    ELSE IF b = <<>> THEN FALSE
    ELSE IF a[1] = b[1] THEN Less(Tail(a), Tail(b))
    ELSE Code(a[1]) < Code(b[1])

RECURSIVE Itoa(_)
Itoa(n) ==
    LET digit == CHOOSE c \in Digits : DigitValue(c) = n % 10
    IN  IF n < 10 THEN <<digit>> ELSE Itoa(n \div 10) \o <<digit>>

\* json.Marshal: compact, object keys sorted
RECURSIVE jsonMarshal(_), marshalMembers(_, _, _), marshalElements(_, _)
marshalMember(m, keys, first, key) ==
    (IF first THEN <<>> ELSE <<",">>) \o <<"\"">> \o key \o <<"\"", ":">>
        \o jsonMarshal(m[key]) \o marshalMembers(m, keys \ {key}, FALSE)

marshalMembers(m, keys, first) ==
    IF keys = {} THEN <<>>
    ELSE marshalMember(m, keys, first,
                       CHOOSE k \in keys : \A other \in keys \ {k} : Less(k, other))

marshalElements(l, i) ==
    IF i > Len(l) THEN <<>>
    ELSE (IF i = 1 THEN <<>> ELSE <<",">>) \o jsonMarshal(l[i]) \o marshalElements(l, i + 1)

jsonMarshal(v) ==
    CASE v.t = "null" -> <<"n", "u", "l", "l">>
      [] v.t = "str" -> <<"\"">> \o v.s \o <<"\"">>
      [] v.t = "num" -> Itoa(v.n)
      [] v.t = "map" -> <<"{">> \o marshalMembers(v.m, DOMAIN v.m, TRUE) \o <<"}">>
      [] v.t = "list" -> <<"[">> \o marshalElements(v.l, 1) \o <<"]">>

castToStrings(slice) ==
    IF \A i \in 1..Len(slice) : IsStr(slice[i])
    THEN [result |-> [i \in 1..Len(slice) |-> slice[i].s], err |-> NoErr]
    ELSE [result |-> <<>>, err |-> Error("function command line arguments must be strings", <<>>)]

\* mutant: the output of one successful run is reused for every call
Output_cached(argv, out) ==
    [stdout |-> <<"{", "\"", "z", "\"", ":", "1", "}">>, err |-> NoErr]

\* exec.Command(argv[0], argv[1:]...).Output(), the process ending as out says:
\* a command without a name cannot start, a started one may exit non-zero
Output(argv, out) ==
    IF argv[1] = <<>> THEN [stdout |-> <<>>, err |-> Error("exec", argv[1])]
    ELSE IF ~out.ok THEN [stdout |-> out.stdout, err |-> Error("exit status", argv[1])]
    ELSE [stdout |-> out.stdout, err |-> NoErr]

\* what a call leaves behind: the process it started and what it returned
Called(argv, procStdin, val, e) ==
    [spawned |-> argv[1] # <<>>, argv |-> argv, procStdin |-> procStdin, val |-> val, err |-> e]

\* rawInput && rawOutput, after command.Output() returned o
returnRawRaw(argv, procStdin, o) ==
    IF o.err # NoErr THEN Called(argv, procStdin, Str(<<>>), o.err)
    ELSE Called(argv, procStdin, Str(o.stdout), NoErr)

\* rawInput only, after command.Output() returned o and, on success, the
\* YAML decoder returned y
returnRawStructured(argv, procStdin, o, y) ==
    IF o.err # NoErr THEN Called(argv, procStdin, Null, o.err)
    ELSE IF y.err # NoErr THEN Called(argv, procStdin, Null, y.err)
    ELSE Called(argv, procStdin, y.val, NoErr)

\* rawOutput only
returnStructuredRaw(argv, procStdin, o) ==
    Called(argv, procStdin, Str(o.stdout), o.err)

\* neither: the closure returns its stdin argument
returnStructuredStructured(argv, procStdin, o, y, stdinArg) ==
    IF o.err # NoErr THEN Called(argv, procStdin, Null, o.err)
    ELSE IF y.err # NoErr THEN Called(argv, procStdin, Null, y.err)
    ELSE Called(argv, procStdin, stdinArg, NoErr)

\* the error of castToStrings is dropped by every closure: stringArgs is nil then
extendedCommandArray(commandArray, args) == commandArray \o castToStrings(args).result

\* the closure f of functionContent.load, called as f(args, stdinArg)
callClosure(f, argv, stdinArg, o) ==
    IF f.rawInput /\ f.rawOutput THEN returnRawRaw(argv, stdinArg.s, o)
    ELSE IF f.rawInput
    THEN returnRawStructured(argv, stdinArg.s, o, yamlUnmarshal(o.stdout))
    ELSE IF f.rawOutput THEN returnStructuredRaw(argv, jsonMarshal(stdinArg), o)
    ELSE returnStructuredStructured(argv, jsonMarshal(stdinArg), o,
                                    yamlUnmarshal(o.stdout), stdinArg)

call(f, args, stdinArg, out) ==
    callClosure(f, extendedCommandArray(f.commandArray, args), stdinArg,
                Output(extendedCommandArray(f.commandArray, args), out))

----------------------------------------------------------------------------
(* The inputs the model draws *)

\* arguments for the parser alone
ParseArgs ==
    { <<"f">>, <<":", "f">>, <<":", "y", "a", "m", "l", ":", "f">>,
      <<"k", ":", ".", ".">>, <<"k", ":", ":", ".", ".">>, <<"j", ":", ".", ".", ".">>,
      <<".", ".">>,
      <<"k", ":", ":", "f">>, <<"k", ":", "t", "e", "x", "t", ":", "f">>,
      <<"k", ":", ":", "+", "a", ":", "b">>,
      <<"+", "{", "\"", "x", "\"", ":", "2", "}">>,
      <<"k", ":", ":", "-", "-", "c", " ", "d">>, <<"j", ":", "-", "c">>, <<"-", "c">>,
      <<"k", ":", "-">>, <<"k", ":", ":", "-">>, <<"k", ":">>,
      <<":", "+", "a">>, <<"k", ":", "x", ":", "f">>, <<".", ".", "/", "f">> }

\* arguments for parsing and loading
LoadArgs ==
    { <<"f">>, <<"g">>, <<"m">>,
      <<"+", "{", "\"", "x", "\"", ":", "2", "}">>,
      <<"k", ":", ":", "+", "a", ":", "b">>,
      <<"k", ":", ":", "f">>,
      <<"y", ":", "g">>,
      <<"k", ":", ".", ".">>, <<"j", ":", ".", ".", ".">>,
      <<"d", "/", "a", ".", "b">>,
      <<"-", "c">>,
      <<"k", ":", "-">>, <<"k", ":", ":", "-">>,
      <<".", ".">>, <<":", "j", "s", "o", "n", ":", ".", ".", ".">>, <<":", ":", "+", "a">>,
      <<"k", ":", ":", ".", ".">>,
      <<"k", ":", "+", "{", "\"", "x", "\"", ":", "2", "}">>,
      <<"k", ":", "x", ":", "-", "c">> }

\* arguments at the edge of the grammar: the empty string, every string of one
\* or two of the characters the parser looks for, and some longer ones
EdgeChars == {":", "+", "-", "."}
EdgeArgs ==
    {<<>>} \cup {<<a>> : a \in EdgeChars} \cup {<<a, b>> : a, b \in EdgeChars}
        \cup { <<".", ".", ".">>, <<":", ".", ".">>, <<":", ":", "+">>,
               <<"k", ":">>, <<"k", ":", ".", ".">> }

\* what standard input holds when the program starts
StdinBytes == { <<"{", "\"", "x", "\"", ":", "3", "}">>, <<"f", "o", "o">> }

\* function arguments, one per rawInput x rawOutput combination
FunctionArgs ==
    { <<"k", ":", ":", "-", "-", "c", " ", "d">>, <<"k", ":", "t", "e", "x", "t", ":", "-", "c">>,
      <<"j", ":", "-", "-", "c">>, <<"j", ":", "-", "c">> }

\* the argument lists and stdin arguments of a call, and how the process ends
CallArgs == { <<>>, <<Str(<<"a">>)>>, <<Str(<<"a">>), Num(1)>> }
CallStdinValues == { Str(<<"a", "b">>), Map((<<"y">> :> Num(2)) @@ (<<"x">> :> List(<<Num(10)>>))) }
ProcessOutcomes ==
    { [stdout |-> <<"{", "\"", "z", "\"", ":", "1", "}">>, ok |-> TRUE],
      [stdout |-> <<"{">>, ok |-> TRUE],
      [stdout |-> <<>>, ok |-> FALSE] }

----------------------------------------------------------------------------
(* The program *)

NoReturn == [context |-> Null, err |-> NoErr]

\* run has opened nothing
NoFiles == [named |-> {}, opened |-> {}, closeFailed |-> {}]

Init ==
    /\ rawContexts = <<>>
    /\ contexts = <<>>
    /\ lc = 0
    /\ placed = <<>>
    /\ pc = "parse"
    /\ deepMerge = FALSE
    /\ next = 0
    /\ finalContext = EmptyMap
    /\ evaluated = <<>>
    /\ returned = NoReturn
    /\ stdin = [bytes |-> <<>>, reads |-> 0, evals |-> <<>>]
    /\ callable = Null
    /\ calls = <<>>
    /\ template = <<>>
    /\ output = <<>>
    /\ files = NoFiles

\* the appends and the new lc of one loop iteration, parsedContext going to at
ParseArgBody(parsedContext, at) ==
    /\ contexts' = appendContext(parsedContext, contexts, at)
    /\ lc' = at.lc
    /\ placed' = Append(placed, [top |-> at.top, child |-> at.child])

\* one iteration of the loop of parseContexts, on the argument rawContext
ParseArg(rawContext) ==
    /\ pc = "parse"
    /\ Len(rawContexts) < MaxArgs
    /\ ParseArgBody(parseOne(rawContext, contexts, lc),
                    placeAt(parseOne(rawContext, contexts, lc), contexts,
                            listAfterKey(splitKey(rawContext).key, lc)))
    /\ rawContexts' = Append(rawContexts, rawContext)
    /\ UNCHANGED <<pc, deepMerge, next, finalContext, evaluated, returned, stdin,
                   callable, calls>>
    /\ UNCHANGED runVars

\* parseContexts returns and run calls loadContext(args.contexts, args.deepMerge);
\* bytes is what standard input holds
LoadContextStart(d, bytes) ==
    /\ pc = "parse"
    /\ pc' = "load"
    /\ deepMerge' = d
    /\ next' = 1
    /\ finalContext' = EmptyMap
    /\ stdin' = [bytes |-> bytes, reads |-> 0, evals |-> <<>>]
    /\ UNCHANGED <<rawContexts, contexts, lc, placed, evaluated, returned, callable, calls>>
    /\ UNCHANGED runVars

\* mutant: the deep-merge flag is ignored and no merge is deep
merge_neverDeep(final, newContext, deep) ==
    [k \in DOMAIN final \cup DOMAIN newContext |->
        IF k \in DOMAIN newContext THEN newContext[k] ELSE final[k]]

\* mutant: the deep-merge flag is ignored and every merge is deep
merge_alwaysDeep(final, newContext, deep) == mergoMerge(final, newContext, TRUE)

\* what the loop body of loadContext does to finalContext with one new context
merge(final, newContext, deep) ==
    IF deep THEN mergoMerge(final, newContext, TRUE)
    ELSE [k \in DOMAIN final \cup DOMAIN newContext |->
             IF k \in DOMAIN newContext THEN newContext[k] ELSE final[k]]

\* mutant: the error names the key of the context and the context merged so far
\* is returned with it
noTopLevelKeys_partial(context, final) ==
    [context |-> Map(final), err |-> Error("no top level keys", context.key)]

\* what loadContext returns for a context whose value is not a map:
\* nil and "context %s had no top level keys: %q" with context.original
noTopLevelKeys(context, final) ==
    [context |-> Null, err |-> Error("no top level keys", context.original)]

\* the body of the loop of loadContext, after context.eval() returned r
LoadContextBody(context, r) ==
    /\ stdin' = r.stdin
    /\ IF r.err # NoErr
       THEN /\ pc' = "failed"
            /\ returned' = [context |-> Null, err |-> r.err]
            /\ UNCHANGED <<next, finalContext, evaluated>>
       ELSE IF ~IsMap(r.val)
       THEN /\ pc' = "failed"
            /\ returned' = noTopLevelKeys(context, finalContext)
            /\ evaluated' = Append(evaluated, r.val)
            /\ UNCHANGED <<next, finalContext>>
       ELSE /\ finalContext' = merge(finalContext, r.val.m, deepMerge)
            /\ evaluated' = Append(evaluated, r.val)
            /\ next' = next + 1
            /\ UNCHANGED <<pc, returned>>

\* one iteration of the loop of loadContext
LoadContextStep ==
    /\ pc = "load"
    /\ next <= Len(contexts)
    /\ LoadContextBody(contexts[next], eval(contexts[next], stdin))
    /\ UNCHANGED <<rawContexts, contexts, lc, placed, deepMerge, callable, calls>>
    /\ UNCHANGED runVars

\* the loop of loadContext is over: return finalContext, nil
LoadContextReturn ==
    /\ pc = "load"
    /\ next > Len(contexts)
    /\ pc' = "done"
    /\ returned' = [context |-> Map(finalContext), err |-> NoErr]
    /\ UNCHANGED <<rawContexts, contexts, lc, placed, deepMerge, next, finalContext,
                   evaluated, stdin, callable, calls>>
    /\ UNCHANGED runVars

Next ==
    \/ \E rawContext \in LoadArgs : ParseArg(rawContext)
    \/ \E d \in BOOLEAN, bytes \in StdinBytes : LoadContextStart(d, bytes)
    \/ LoadContextStep
    \/ LoadContextReturn

Spec == Init /\ [][Next]_vars

\* the parser alone, over a wider set of arguments
NextParse == \E rawContext \in ParseArgs : ParseArg(rawContext)

SpecParse == Init /\ [][NextParse]_vars

\* the parser alone, over the arguments at the edge of the grammar
NextEdge == \E rawContext \in EdgeArgs : ParseArg(rawContext)

SpecEdge == Init /\ [][NextEdge]_vars

----------------------------------------------------------------------------
(* The function bridge alone: a Function argument is parsed and loaded, and  *)
(* the evaluator calls the callable.  The interpreter's wrapper hands a      *)
(* string to a closure that declares a string stdin, so a raw-input callable *)
(* is called with strings only.                                              *)

InitCall ==
    \E rawContext \in FunctionArgs :
        /\ rawContexts = <<rawContext>>
        /\ contexts = <<parseOne(rawContext, <<>>, 0)>>
        /\ lc = 0
        /\ placed = <<[top |-> 1, child |-> 0]>>
        /\ pc = "render"
        /\ deepMerge = FALSE
        /\ next = 2
        /\ stdin = [bytes |-> <<>>, reads |-> 0, evals |-> <<>>]
        /\ callable = load(parseOne(rawContext, <<>>, 0).content, stdin).val
        /\ evaluated = <<Map(parseOne(rawContext, <<>>, 0).key :> callable)>>
        /\ finalContext = evaluated[1].m
        /\ returned = [context |-> Map(finalContext), err |-> NoErr]
        /\ calls = <<>>
        /\ template = <<>>
        /\ output = <<>>
        /\ files = NoFiles

\* the evaluator calls the callable with (args, stdinArg); the process ends as out
Call(args, stdinArg, out) ==
    /\ pc = "render"
    /\ Len(calls) < MaxCalls
    /\ callable.rawInput => IsStr(stdinArg)
    /\ calls' = Append(calls, [args |-> args, stdinArg |-> stdinArg, out |-> out]
                              @@ call(callable, args, stdinArg, out))
    /\ UNCHANGED <<rawContexts, contexts, lc, placed, pc, deepMerge, next, finalContext,
                   evaluated, returned, stdin, callable>>
    /\ UNCHANGED runVars

NextCall ==
    \E args \in CallArgs, stdinArg \in CallStdinValues, out \in ProcessOutcomes :
        Call(args, stdinArg, out)

SpecCall == InitCall /\ [][NextCall]_vars

----------------------------------------------------------------------------
(* run after loadContext: the template stream is decoded, rendered and       *)
(* written one document at a time.  What the decoder, the evaluator and the  *)
(* writer do with a document is an input: a document is named by how its     *)
(* processing ends.                                                          *)

\* how the processing of one document ends: written, or the step that fails
DocOutcomes == {"ok", "decode", "types", "render", "marshal", "write"}

\* the template streams: up to MaxDocs documents
Templates == UNION {[1..n -> DocOutcomes] : n \in 0..MaxDocs}

\* how run gets from loadContext to the loop: the verbose dump, the opening of
\* the template file, the creation of the output file
OpenOutcomes == {"ok", "verbose", "open", "create"}

\* what run closes when it returns: the template file (templateFile is not "-"),
\* the output file (outputFile is not "-"), the YAML encoder (args.yaml)
Closers == {"template", "output", "encoder"}

\* run up to the return of loadContext, which gave a context or an error
InitRun ==
    \E documents \in Templates, loaded \in BOOLEAN, named \in SUBSET Closers :
        /\ rawContexts = <<>>
        /\ contexts = <<>>
        /\ lc = 0
        /\ placed = <<>>
        /\ pc = IF loaded THEN "done" ELSE "failed"
        /\ deepMerge = FALSE
        /\ next = 1
        /\ finalContext = EmptyMap
        /\ evaluated = <<>>
        /\ returned = IF loaded THEN [context |-> Map(EmptyMap), err |-> NoErr]
                      ELSE [context |-> Null, err |-> Error("load", <<>>)]
        /\ stdin = [bytes |-> <<>>, reads |-> 0, evals |-> <<>>]
        /\ callable = Null
        /\ calls = <<>>
        /\ template = documents
        /\ output = <<>>
        /\ files = [named |-> named, opened |-> {}, closeFailed |-> {}]

\* mutant: the error of a Close replaces the error run returns
closeWithError_overwrites(finalError, err) == IF err # NoErr THEN err ELSE finalError

\* closeWithError, c.Close() having returned err
closeWithError(finalError, err) ==
    IF err # NoErr /\ finalError = NoErr THEN err ELSE finalError

\* c.Close(), failing for the closers in failing
Close(c, failing) == IF c \in failing THEN Error("close", <<c>>) ELSE NoErr

\* defer closeWithError(c), registered only when c was opened
closeDeferred(finalError, c, opened, failing) ==
    IF c \in opened THEN closeWithError(finalError, Close(c, failing)) ELSE finalError

\* the deferred calls of run, last registered first; finalError is what run returns
deferred(finalError, opened, failing) ==
    closeDeferred(closeDeferred(closeDeferred(finalError, "encoder", opened, failing),
                                "output", opened, failing),
                  "template", opened, failing)

\* what run has opened when the step between loadContext and the loop ends
openedAt(outcome, named) ==
    CASE outcome = "ok" -> named
      [] outcome = "create" -> named \cap {"template"}
      [] OTHER -> {}

\* run returns err after it opened the closers in opened; their Close fails for
\* the ones in failing
RunFails(err, opened, failing) ==
    /\ failing \subseteq opened
    /\ pc' = "failed"
    /\ returned' = [context |-> Null, err |-> deferred(err, opened, failing)]
    /\ files' = [files EXCEPT !.opened = opened, !.closeFailed = failing]

\* run between loadContext and the loop
RunOpen(outcome, failing) ==
    /\ pc = "done"
    /\ outcome = "open" => "template" \in files.named
    /\ outcome = "create" => "output" \in files.named
    /\ IF outcome = "ok"
       THEN /\ failing = {}
            /\ pc' = "documents"
            /\ files' = [files EXCEPT !.opened = files.named]
            /\ UNCHANGED returned
       ELSE RunFails(Error(outcome, <<>>), openedAt(outcome, files.named), failing)
    /\ UNCHANGED <<rawContexts, contexts, lc, placed, deepMerge, next, finalContext,
                   evaluated, stdin, callable, calls, template, output>>

\* the output after document n was written: out.Write(byteOutput) or
\* encoder.Encode(output)
written(out, n) == Append(out, n)

\* one iteration of the loop of run on the next document of the stream
RunDocument(failing) ==
    /\ pc = "documents"
    /\ template # <<>>
    /\ IF Head(template) = "ok"
       THEN /\ failing = {}
            /\ output' = written(output, Len(output) + 1)
            /\ template' = Tail(template)
            /\ UNCHANGED <<pc, returned, files>>
       ELSE /\ RunFails(Error(Head(template), <<>>), files.opened, failing)
            /\ UNCHANGED <<template, output>>
    /\ UNCHANGED <<rawContexts, contexts, lc, placed, deepMerge, next, finalContext,
                   evaluated, stdin, callable, calls>>

\* the decoder reports io.EOF: run returns nil, and the deferred closes run
RunReturn(failing) ==
    /\ pc = "documents"
    /\ template = <<>>
    /\ IF failing = {}
       THEN /\ pc' = "returned"
            /\ UNCHANGED <<returned, files>>
       ELSE RunFails(NoErr, files.opened, failing)
    /\ UNCHANGED <<rawContexts, contexts, lc, placed, deepMerge, next, finalContext,
                   evaluated, stdin, callable, calls, template, output>>

NextRun ==
    \/ \E outcome \in OpenOutcomes, failing \in SUBSET Closers : RunOpen(outcome, failing)
    \/ \E failing \in SUBSET Closers : RunDocument(failing)
    \/ \E failing \in SUBSET Closers : RunReturn(failing)

SpecRun == InitRun /\ [][NextRun]_vars

----------------------------------------------------------------------------
(* The kv decoder alone: the single argument :kv:+payload is parsed and      *)
(* loadContext loads it.                                                     *)

KvAlphabet == {"a", " ", "\n"}

\* the payloads: up to MaxKvLen characters
KvPayloads == UNION {[1..n -> KvAlphabet] : n \in 0..MaxKvLen}

InitKv ==
    \E payload \in KvPayloads :
        /\ rawContexts = << <<":", "k", "v", ":", "+">> \o payload >>
        /\ contexts = <<parseOne(rawContexts[1], <<>>, 0)>>
        /\ lc = 0
        /\ placed = <<[top |-> 1, child |-> 0]>>
        /\ pc = "load"
        /\ deepMerge = FALSE
        /\ next = 1
        /\ finalContext = EmptyMap
        /\ evaluated = <<>>
        /\ returned = NoReturn
        /\ stdin = [bytes |-> <<>>, reads |-> 0, evals |-> <<>>]
        /\ callable = Null
        /\ calls = <<>>
        /\ template = <<>>
        /\ output = <<>>
        /\ files = NoFiles

NextKv == LoadContextStep \/ LoadContextReturn

SpecKv == InitKv /\ [][NextKv]_vars

----------------------------------------------------------------------------
(* Properties *)

\* the key and the data token of an argument, and whether it opens a list
KeyOf(arg) == splitKey(arg).key
DataOf(arg) == parseFormat(splitKey(arg).rawContent).data
IsOpener(arg) == DataOf(arg) \in {<<".", ".">>, <<".", ".", ".">>}

\* the context built from argument i
NodeAt(i) ==
    IF placed[i].child = 0 THEN contexts[placed[i].top]
    ELSE contexts[placed[i].top].content.contexts[placed[i].child]

\* the current list as parseContent receives it when the next argument has no key
CurrentList == IF lc = 0 THEN NilList ELSE contexts[lc].content

\* a context and its place, without its original
Placed(parsedContext, at) ==
    [key |-> parsedContext.key, content |-> parsedContext.content,
     top |-> at.top, child |-> at.child]

\* the key, content and place of the context the next loop iteration would build
\* from arg
ParsedNext(arg) ==
    Placed(parseOne(arg, contexts, lc),
           placeAt(parseOne(arg, contexts, lc), contexts, listAfterKey(KeyOf(arg), lc)))

\* the last index of evaluated whose map has key k
LastWith(k) ==
    CHOOSE i \in 1..Len(evaluated) :
        /\ k \in DOMAIN evaluated[i].m
        /\ \A j \in (i + 1)..Len(evaluated) : k \notin DOMAIN evaluated[j].m

\* C1: with deep merge off, the context loadContext returns has as keys the union
\* of the top-level keys of the maps the contexts evaluated to, and at each key the
\* whole value of the last context that has the key.
C1_ShallowUnion ==
    (pc = "done" /\ ~deepMerge) =>
        /\ Len(evaluated) = Len(contexts)
        /\ IsMap(returned.context)
        /\ DOMAIN returned.context.m
               = UNION {DOMAIN evaluated[i].m : i \in 1..Len(evaluated)}
        /\ \A k \in DOMAIN returned.context.m :
               returned.context.m[k] = evaluated[LastWith(k)].m[k]

\* two contexts gave different maps under one key and the later one was kept whole
C1_Witness ==
    /\ pc = "done"
    /\ ~deepMerge
    /\ \E i, j \in 1..Len(evaluated) : \E k \in DOMAIN evaluated[i].m :
           /\ i < j
           /\ k \in DOMAIN evaluated[j].m
           /\ IsMap(evaluated[i].m[k]) /\ IsMap(evaluated[j].m[k])
           /\ DOMAIN evaluated[i].m[k].m # DOMAIN evaluated[j].m[k].m
           /\ returned.context.m[k] = evaluated[j].m[k]

\* arguments i..j are: a list opener with a key, arguments without a key, an
\* argument with a key
ListRun(i, j) ==
    /\ i < j
    /\ KeyOf(rawContexts[i]) # <<>>
    /\ IsOpener(rawContexts[i])
    /\ \A m \in (i + 1)..(j - 1) : KeyOf(rawContexts[m]) = <<>>
    /\ KeyOf(rawContexts[j]) # <<>>

\* the opener at i became a keyed top-level List whose children are exactly the
\* arguments between i and j, in order and without keys, and argument j is a
\* top-level context of its own, after which no list but its own is open
ListRunParsed(i, j) ==
    /\ placed[i].child = 0
    /\ contexts[placed[i].top].content.kind = "list"
    /\ contexts[placed[i].top].key = KeyOf(rawContexts[i])
    /\ Len(contexts[placed[i].top].content.contexts) = j - i - 1
    /\ \A m \in 1..(j - i - 1) :
           /\ contexts[placed[i].top].content.contexts[m].original = rawContexts[i + m]
           /\ contexts[placed[i].top].content.contexts[m].key = <<>>
           /\ placed[i + m] = [top |-> placed[i].top, child |-> m]
    /\ placed[j].child = 0
    /\ placed[j].top # placed[i].top
    /\ (j = Len(rawContexts)) =>
           lc = IF NodeAt(j).content.kind = "list" THEN placed[j].top ELSE 0

IsLastComponent(b, f) ==
    /\ HasSuffix(f, b)
    /\ \A i \in 1..Len(b) : b[i] # "/"
    /\ (Len(f) = Len(b) \/ f[Len(f) - Len(b)] = "/")

\* n is b without its extension, the extension starting at the last dot of b
IsWithoutExtension(n, b) ==
    IF \E i \in 1..Len(b) : b[i] = "."
    THEN /\ HasPrefix(b, n)
         /\ Len(n) < Len(b)
         /\ b[Len(n) + 1] = "."
         /\ \A i \in (Len(n) + 2)..Len(b) : b[i] # "."
    ELSE n = b

\* the element a list must hold for a child whose load gave content
ElementOk(showMetadata, child, content, elem) ==
    IF ~showMetadata THEN elem = content
    ELSE /\ IsMap(elem)
         /\ IF child.content.kind = "file"
            THEN /\ DOMAIN elem.m = {contentKey, filenameKey, basenameKey, nameKey}
                 /\ elem.m[contentKey] = content
                 /\ elem.m[filenameKey] = Str(child.content.filename)
                 /\ IsStr(elem.m[basenameKey])
                 /\ IsLastComponent(elem.m[basenameKey].s, child.content.filename)
                 /\ IsStr(elem.m[nameKey])
                 /\ IsWithoutExtension(elem.m[nameKey].s, elem.m[basenameKey].s)
            ELSE /\ DOMAIN elem.m = {contentKey}
                 /\ elem.m[contentKey] = content

\* the list value top-level context t evaluated to
ListValue(t) ==
    IF contexts[t].key # <<>> THEN evaluated[t].m[contexts[t].key] ELSE evaluated[t]

C4Keys == { <<"k">>, <<"j">>, <<"y">> }
C4Texts == { <<"a", ":", "b">>, <<"{", "\"", "x", "\"", ":", "2", "}">>, <<>> }

\* C4: k::+T contributes exactly k -> the string T, also when T holds colons, and
\* k::F contributes k -> the bytes of the file F as a string.
C4_RawText ==
    \A i \in 1..Len(rawContexts) : \A k \in C4Keys :
        /\ \A T \in C4Texts :
               (rawContexts[i] = k \o <<":", ":", "+">> \o T) =>
                   /\ placed[i].child = 0
                   /\ placed[i].top <= Len(evaluated) =>
                          evaluated[placed[i].top] = Map(k :> Str(T))
                   /\ ~(pc = "failed" /\ next = placed[i].top)
        /\ \A F \in DOMAIN Files :
               (rawContexts[i] = k \o <<":", ":">> \o F) =>
                   /\ placed[i].child = 0
                   /\ placed[i].top <= Len(evaluated) =>
                          evaluated[placed[i].top] = Map(k :> Str(Files[F]))
                   /\ ~(pc = "failed" /\ next = placed[i].top)

\* k::+a:b and k::f were both evaluated
C4_Witness ==
    \E i, j \in 1..Len(rawContexts) :
        /\ rawContexts[i] = <<"k", ":", ":", "+", "a", ":", "b">>
        /\ rawContexts[j] = <<"k", ":", ":", "f">>
        /\ placed[i].top <= Len(evaluated)
        /\ placed[j].top <= Len(evaluated)
        /\ evaluated[placed[i].top] = Map(<<"k">> :> Str(<<"a", ":", "b">>))
        /\ evaluated[placed[j].top] = Map(<<"k">> :> Str(Files[<<"f">>]))

C5Keys == { <<>>, <<"k">> }
C5Payloads ==
    { <<"f">>, <<"+", "a", ":", "b">>, <<>>, <<".", ".">>, <<".", ".", ".">>, <<"-">>,
      <<"-", "c">>, <<"-", "-", "c", " ", "d">>, <<"a", ":", "b">> }

\* text is the format a content carries: as format for a File, a Text and a Stdin,
\* as child format for a List, as rawInput for a Function
CarriesText(content) ==
    CASE content.kind \in {"file", "text", "stdin"} -> content.format = textFormat
      [] content.kind = "list" -> content.childFormat = textFormat
      [] content.kind = "function" -> content.rawInput

\* two parsed contexts are the same and text was the format resolved for both
SameTextContext(a, b, formatA, formatB) ==
    /\ a = b
    /\ formatA = textFormat
    /\ formatB = textFormat

\* argument i has the form k::X or k:text:X
IsTextArgument(i) ==
    \E k \in C5Keys, X \in C5Payloads :
        rawContexts[i] \in {k \o <<":", ":">> \o X,
                            k \o <<":", "t", "e", "x", "t", ":">> \o X}

\* C5: in every parse state, k::X and k:text:X parse to the same context (same
\* key, same variant, same data, put at the same place), and the context parsed
\* from either has the text format.
C5_EmptyFormatIsText ==
    /\ \A k \in C5Keys, X \in C5Payloads :
           SameTextContext(ParsedNext(k \o <<":", ":">> \o X),
                           ParsedNext(k \o <<":", "t", "e", "x", "t", ":">> \o X),
                           resolveFormat(<<":", ":">> \o X, CurrentList),
                           resolveFormat(<<":", "t", "e", "x", "t", ":">> \o X, CurrentList))
    /\ \A i \in 1..Len(rawContexts) :
           IsTextArgument(i) => CarriesText(NodeAt(i).content)

C6Files == { <<"f">>, <<"d", "/", "a", ".", "b">>, <<"m">> }

\* F, :F and :yaml:F all parse, in the current state, to an unkeyed YAML File
\* put at the same place
SameYamlFile(F) ==
    /\ ParsedNext(F).key = <<>>
    /\ ParsedNext(F).content = fileContent(yamlFormat, F)
    /\ ParsedNext(<<":">> \o F) = ParsedNext(F)
    /\ ParsedNext(<<":", "y", "a", "m", "l", ":">> \o F) = ParsedNext(F)
    /\ ParsedNext(F).child = IF lc = 0 THEN 0 ELSE Len(CurrentList.contexts) + 1

ListOf(i) == IF placed[i].child = 0 THEN NilList ELSE contexts[placed[i].top].content

\* the format resolved for argument i
ResolvedFormat(i) == resolveFormat(splitKey(rawContexts[i]).rawContent, ListOf(i))

C9Keys == { <<"k">>, <<"j">> }
C9Commands == { <<"c">>, <<"c", " ", "d">> }

SupportedFormats == {yamlFormat, jsonFormat, kvFormat, textFormat}

\* C10: a Stdin context carries the format resolved for its argument and decodes
\* standard input as a File with that format would: with a supported format its
\* load does not fail on the format.
C10_StdinDecodesLikeFile ==
    \A i \in 1..Len(rawContexts) :
        (NodeAt(i).content.kind = "stdin" /\ placed[i].child = 0) =>
            /\ (placed[i].top <= Len(evaluated)) =>
                   NodeAt(i).content.format = ResolvedFormat(i)
            /\ (pc = "failed" /\ next = placed[i].top
                    /\ ResolvedFormat(i) \in SupportedFormats) =>
                   returned.err.kind # "format"

\* C7: a call that succeeds returns what the process wrote on standard output: as
\* a string when rawOutput, decoded as structured data otherwise.
C7_ReturnsProcessOutput ==
    \A c \in 1..Len(calls) :
        calls[c].err = NoErr =>
            calls[c].val = IF callable.rawOutput THEN Str(calls[c].out.stdout)
                           ELSE yamlUnmarshal(calls[c].out.stdout).val

\* C8: a call with an argument that is not a string returns an error and starts
\* no process.
C8_NonStringArgumentFails ==
    \A c \in 1..Len(calls) :
        (\E i \in 1..Len(calls[c].args) : ~IsStr(calls[c].args[i])) =>
            /\ calls[c].err # NoErr
            /\ ~calls[c].spawned

\* the argument a top-level context was built from
ArgumentOf(t) ==
    CHOOSE i \in 1..Len(rawContexts) : placed[i] = [top |-> t, child |-> 0]

\* C11: when a top-level context evaluates to a value that is not a map,
\* loadContext returns no context and an error that carries the original argument
\* of that context, whatever was merged before; it never returns a context after
\* such a value.
C11_NotMappingFails ==
    /\ \A t \in 1..Len(evaluated) :
           ~IsMap(evaluated[t]) =>
               /\ t = Len(evaluated)
               /\ pc = "failed"
               /\ returned.context = Null
               /\ returned.err.kind = "no top level keys"
               /\ returned.err.detail = rawContexts[ArgumentOf(t)]
    /\ (pc = "done") => \A t \in 1..Len(evaluated) : IsMap(evaluated[t])

\* a context was merged and the next one evaluated to a string or a list
C11_Witness ==
    /\ pc = "failed"
    /\ Len(evaluated) >= 2
    /\ finalContext # EmptyMap
    /\ ~IsMap(evaluated[Len(evaluated)])
    /\ returned.context = Null
    /\ returned.err.detail = contexts[Len(evaluated)].original

\* an argument with a colon whose key is empty, or with a key and nothing after
\* the colon
Malformed(arg) ==
    /\ ~HasPrefix(arg, <<"+">>)
    /\ Len(SplitN2(arg, ":")) = 2
    /\ (SplitN2(arg, ":")[1] = <<>> \/ SplitN2(arg, ":")[2] = <<>>)

\* C12: a malformed argument is rejected while the arguments are parsed: no
\* context is built from it.
C12_MalformedRejected ==
    \A i \in 1..Len(rawContexts) : Malformed(rawContexts[i]) => i > Len(placed)

\* C13: when run ends with a context load, template decode, evaluator or write
\* error, nothing has been written to the output.
C13_NoPartialOutput ==
    (pc = "failed" /\ returned.err.kind \in DocOutcomes \cup {"load"}) => output = <<>>

\* the value argument i contributed, once its top-level context was evaluated:
\* the value of the context itself, or its element of the list it is a child of
Contributed(i) ==
    IF placed[i].child = 0 THEN evaluated[placed[i].top]
    ELSE ListValue(placed[i].top).l[placed[i].child]

\* the top-level context that holds argument i was evaluated without error
Loaded(i) == placed[i].top <= Len(evaluated)

\* argument i, which starts with +, became a Text context without a key whose
\* text is the rest of the argument
IsPlusLiteral(i) ==
    /\ NodeAt(i).key = <<>>
    /\ NodeAt(i).content.kind = "text"
    /\ NodeAt(i).content.text = From(rawContexts[i], 1)

\* C14 as stated: an argument that starts with + has no key and its content, the
\* rest after the +, is passed through as a string, undecoded.
C14_PlusIsRawString ==
    \A i \in 1..Len(rawContexts) :
        HasPrefix(rawContexts[i], <<"+">>) =>
            /\ IsPlusLiteral(i)
            /\ (Loaded(i) /\ placed[i].child = 0) =>
                   Contributed(i) = Str(From(rawContexts[i], 1))

\* C14 amended: an argument that starts with + has no key and its content, the
\* rest after the +, is a Text context decoded by the format resolved for it: YAML
\* when no list is open, the child format of the open list otherwise; it stays a
\* string only under the text format.
C14_PlusIsLiteral ==
    \A i \in 1..Len(rawContexts) :
        HasPrefix(rawContexts[i], <<"+">>) =>
            /\ IsPlusLiteral(i)
            /\ NodeAt(i).content.format
                   = IF placed[i].child = 0 THEN yamlFormat ELSE ListOf(i).childFormat
            /\ Loaded(i) =>
                   ElementOk(placed[i].child # 0 /\ ListOf(i).showMetadata,
                             NodeAt(i),
                             IF NodeAt(i).content.format = textFormat
                             THEN Str(From(rawContexts[i], 1))
                             ELSE yamlUnmarshal(From(rawContexts[i], 1)).val,
                             Contributed(i))

\* +{"x":2} was decoded to a map at the top level and kept as a string in a text
\* list
C14_Witness ==
    \E i, j \in 1..Len(rawContexts) :
        /\ rawContexts[i] = <<"+", "{", "\"", "x", "\"", ":", "2", "}">>
        /\ rawContexts[j] = rawContexts[i]
        /\ placed[i].child = 0
        /\ placed[j].child # 0
        /\ Loaded(i) /\ Loaded(j)
        /\ Contributed(i) = Map(<<"x">> :> Num(2))
        /\ Contributed(j) = Str(From(rawContexts[j], 1))

C15Keys == { <<"k">>, <<"y">> }
C15Texts == { <<"{", "\"", "x", "\"", ":", "2", "}">>, <<"a", ":", "b">>, <<":">> }

\* C15: colons in a + literal are not separators: +T is a Text context without a
\* key and k:+T a Text context with key k, both with text exactly T; outside a
\* list both are decoded as YAML, so +{"x":2} gives the map {x: 2}.
C15_ColonsInLiteral ==
    \A i \in 1..Len(rawContexts) : \A T \in C15Texts :
        /\ (rawContexts[i] = <<"+">> \o T) =>
               /\ NodeAt(i).key = <<>>
               /\ NodeAt(i).content.kind = "text"
               /\ NodeAt(i).content.text = T
               /\ placed[i].child = 0 =>
                      /\ NodeAt(i).content.format = yamlFormat
                      /\ Loaded(i) => Contributed(i) = yamlUnmarshal(T).val
        /\ \A k \in C15Keys :
               (rawContexts[i] = k \o <<":", "+">> \o T) =>
                   /\ placed[i].child = 0
                   /\ NodeAt(i).key = k
                   /\ NodeAt(i).content = textContent(yamlFormat, T)
                   /\ Loaded(i) => Contributed(i) = Map(k :> yamlUnmarshal(T).val)

\* +{"x":2} and k:+{"x":2} were loaded and x -> 2 was merged into the context
C15_Witness ==
    /\ pc = "done"
    /\ \E i, j \in 1..Len(rawContexts) :
           /\ rawContexts[i] = <<"+", "{", "\"", "x", "\"", ":", "2", "}">>
           /\ rawContexts[j] = <<"k", ":", "+", "{", "\"", "x", "\"", ":", "2", "}">>
           /\ placed[i].child = 0
           /\ Contributed(i) = Map(<<"x">> :> Num(2))
           /\ Contributed(j) = Map(<<"k">> :> Map(<<"x">> :> Num(2)))
    /\ returned.context.m[<<"x">>] = Num(2)
    /\ returned.context.m[<<"k">>] = Map(<<"x">> :> Num(2))

\* the format specifier of an argument, read off its characters: "none" without
\* a colon or with a leading +, "plus" for k:+T and :+T, "single" for one colon,
\* "empty" for k::X, "token" for k:tok:X; in the last case FormatToken is tok
AfterColon(arg) == SplitN2(arg, ":")[2]
Specifier(arg) ==
    IF HasPrefix(arg, <<"+">>) \/ Len(SplitN2(arg, ":")) = 1 THEN "none"
    ELSE IF HasPrefix(AfterColon(arg), <<"+">>) THEN "plus"
    ELSE IF Len(SplitN2(AfterColon(arg), ":")) = 1 THEN "single"
    ELSE IF SplitN2(AfterColon(arg), ":")[1] = <<>> THEN "empty"
    ELSE "token"
FormatToken(arg) == SplitN2(AfterColon(arg), ":")[1]

\* argument i was parsed with no list open; for an opener without a key that is
\* not the first argument the final state does not tell
NoListOpenAt(i) ==
    /\ placed[i].child = 0
    /\ (NodeAt(i).content.kind = "list") => (NodeAt(i).key # <<>> \/ i = 1)

\* the context built from argument i has the format: resolved for it, and
\* carried by the variants that store one (rawInput for a Function)
HasFormat(i, format) ==
    /\ ResolvedFormat(i) = format
    /\ CASE NodeAt(i).content.kind \in {"file", "text"} ->
                NodeAt(i).content.format = format
         [] NodeAt(i).content.kind = "list" -> NodeAt(i).content.childFormat = format
         [] NodeAt(i).content.kind = "function" ->
                NodeAt(i).content.rawInput = (format = textFormat)
         [] OTHER -> TRUE

\* the default format of an argument without a format: YAML with no list open,
\* the child format of the list it is a child of
HasDefaultFormat(i) ==
    /\ NoListOpenAt(i) => HasFormat(i, yamlFormat)
    /\ placed[i].child # 0 => HasFormat(i, ListOf(i).childFormat)

\* the format of an argument with :: or :tok:
HasExplicitFormat(i) ==
    /\ Specifier(rawContexts[i]) = "empty" => HasFormat(i, textFormat)
    /\ Specifier(rawContexts[i]) = "token" =>
           HasFormat(i, FormatToken(rawContexts[i]))

Classified(data, content) ==
    CASE data = <<".", ".">> -> content.kind = "list" /\ ~content.showMetadata
      [] data = <<".", ".", ".">> -> content.kind = "list" /\ content.showMetadata
      [] HasPrefix(data, <<"+">>) ->
            content.kind = "text" /\ content.text = From(data, 1)
      [] data = <<"-">> -> content.kind = "stdin"
      [] HasPrefix(data, <<"-", "-">>) ->
            /\ content.kind = "function"
            /\ content.rawOutput
            /\ content.function = From(data, 2)
      [] HasPrefix(data, <<"-">>) ->
            /\ content.kind = "function"
            /\ ~content.rawOutput
            /\ content.function = From(data, 1)
      [] OTHER -> content.kind = "file" /\ content.filename = data

\* the data token of an argument: what follows its key and its format
DataToken(arg) ==
    CASE Specifier(arg) = "none" -> arg
      [] Specifier(arg) \in {"plus", "single"} -> AfterColon(arg)
      [] OTHER -> SplitN2(AfterColon(arg), ":")[2]

\* C17: the data token of every argument is classified by the first rule that
\* matches: .. list, ... metadata list, + text, - stdin, -- function with raw
\* output, - function, else file with the whole token as filename.
C17_Classification ==
    \A i \in 1..Len(rawContexts) :
        /\ Classified(DataToken(rawContexts[i]), NodeAt(i).content)
        /\ (NodeAt(i).content.kind = "list") =
               (DataToken(rawContexts[i]) \in {<<".", ".">>, <<".", ".", ".">>})

\* ../f became a File, ... a metadata list and - a Stdin
C17_Witness ==
    \E i, j, m \in 1..Len(rawContexts) :
        /\ rawContexts[i] = <<".", ".", "/", "f">>
        /\ NodeAt(i).content.kind = "file"
        /\ NodeAt(i).content.filename = <<".", ".", "/", "f">>
        /\ rawContexts[j] = <<"j", ":", ".", ".", ".">>
        /\ NodeAt(j).content.showMetadata
        /\ rawContexts[m] = <<"k", ":", "-">>
        /\ NodeAt(m).content.kind = "stdin"

\* the payload of the kv argument, its lines, and the lines that are not empty
KvPayload == From(rawContexts[1], 5)
KvLinesOf(payload) == Split(payload, "\n")
KvEntries(payload) ==
    {n \in 1..Len(KvLinesOf(payload)) : KvLinesOf(payload)[n] # <<>>}

\* the key and the value of a line with a space: what is before and what is
\* after its first space
HasSpace(line) == \E p \in 1..Len(line) : line[p] = " "
FirstSpace(line) == CHOOSE p \in 1..Len(line) :
    line[p] = " " /\ \A q \in 1..(p - 1) : line[q] # " "
KvKey(line) == SubSeq(line, 1, FirstSpace(line) - 1)
KvValue(line) == SubSeq(line, FirstSpace(line) + 1, Len(line))

\* m maps the key of every entry to the value of the last entry with that key
IsKvMapping(m, lines, entries) ==
    /\ DOMAIN m = {KvKey(lines[n]) : n \in entries}
    /\ \A n \in entries :
           (\A n2 \in entries : n2 > n => KvKey(lines[n2]) # KvKey(lines[n])) =>
               m[KvKey(lines[n])] = Str(KvValue(lines[n]))

\* C18: the kv decoder returns, for a payload whose non-empty lines all have a
\* space, the map from each line's part before its first space to its part after
\* it, the last line of a key winning; with a non-empty line without a space it
\* fails with a format error and returns no map.
C18_KvDecoding ==
    (pc # "load") =>
        IF \A n \in KvEntries(KvPayload) : HasSpace(KvLinesOf(KvPayload)[n])
        THEN /\ pc = "done"
             /\ IsKvMapping(returned.context.m, KvLinesOf(KvPayload),
                            KvEntries(KvPayload))
        ELSE /\ pc = "failed"
             /\ returned.context = Null
             /\ returned.err.kind = "kv"
             /\ evaluated = <<>>

\* two lines with the same key and different values were decoded, with an empty
\* line in the payload
C18_Witness ==
    /\ pc = "done"
    /\ \E n, n2 \in KvEntries(KvPayload) :
           /\ n < n2
           /\ KvKey(KvLinesOf(KvPayload)[n]) = KvKey(KvLinesOf(KvPayload)[n2])
           /\ KvValue(KvLinesOf(KvPayload)[n]) # KvValue(KvLinesOf(KvPayload)[n2])
           /\ returned.context.m[KvKey(KvLinesOf(KvPayload)[n2])]
                  = Str(KvValue(KvLinesOf(KvPayload)[n2]))
    /\ Cardinality(KvEntries(KvPayload)) < Len(KvLinesOf(KvPayload))

\* C19: an argument with a format token that is not yaml, json, kv or text is
\* parsed into a context, and the load of that context reports an error, for
\* every variant of content.
C19_UnknownFormatFailsAtLoad ==
    \A i \in 1..Len(rawContexts) :
        (/\ Specifier(rawContexts[i]) = "token"
         /\ FormatToken(rawContexts[i]) \notin SupportedFormats) =>
            /\ i <= Len(placed)
            /\ ~Loaded(i)

\* the values a sequence of maps has at key k, in order
RECURSIVE ValuesAt(_, _)
ValuesAt(maps, k) ==
    IF maps = <<>> THEN <<>>
    ELSE IF k \in DOMAIN Head(maps).m
    THEN <<Head(maps).m[k]>> \o ValuesAt(Tail(maps), k)
    ELSE ValuesAt(Tail(maps), k)

\* r is the deep merge of the values vs, given in argument order: a last value
\* that is not a map replaces what was there; maps are merged key by key
RECURSIVE IsDeepMerge(_, _)
IsDeepMerge(vs, r) ==
    IF ~IsMap(vs[Len(vs)]) THEN r = vs[Len(vs)]
    ELSE IF \A n \in 1..Len(vs) : IsMap(vs[n])
    THEN /\ IsMap(r)
         /\ DOMAIN r.m = UNION {DOMAIN vs[n].m : n \in 1..Len(vs)}
         /\ \A k \in DOMAIN r.m : IsDeepMerge(ValuesAt(vs, k), r.m[k])
    ELSE TRUE

\* r is the shallow merge of the maps vs: each key has the whole value of the
\* last map with the key
IsShallowMerge(vs, r) ==
    /\ IsMap(r)
    /\ DOMAIN r.m = UNION {DOMAIN vs[n].m : n \in 1..Len(vs)}
    /\ \A k \in DOMAIN r.m : r.m[k] = ValuesAt(vs, k)[Len(ValuesAt(vs, k))]

\* C20: loadContext merges recursively exactly when the deep-merge flag is set:
\* with it nested maps are merged key by key and a later value that is not a map
\* replaces the earlier one; without it the later value replaces the earlier one
\* whole.
C20_DeepMergeWithFlag ==
    (pc = "done" /\ evaluated # <<>>) =>
        IF deepMerge THEN IsDeepMerge(evaluated, returned.context)
        ELSE IsShallowMerge(evaluated, returned.context)

\* f = {x:1, y:{a:1}} then g = {y:{b:2}} gave y -> {a:1, b:2} with the flag
C20_Witness ==
    /\ pc = "done"
    /\ deepMerge
    /\ Len(evaluated) >= 2
    /\ rawContexts[1] = <<"f">>
    /\ rawContexts[2] = <<"g">>
    /\ returned.context.m[<<"y">>] = Map((<<"a">> :> Num(1)) @@ (<<"b">> :> Num(2)))

----------------------------------------------------------------------------
\* the calls that started a process
Started == {c \in 1..Len(calls) : calls[c].spawned}

\* what call c returned is what its own process did: its exit status, its output
OwnProcess(c) ==
    /\ ~calls[c].out.ok => calls[c].err.kind = "exit status"
    /\ calls[c].out.ok /\ callable.rawOutput =>
           /\ calls[c].err = NoErr
           /\ calls[c].val = Str(calls[c].out.stdout)
    /\ calls[c].out.ok /\ ~callable.rawOutput =>
           (calls[c].err = NoErr <=> ~Failed(yamlUnmarshal(calls[c].out.stdout)))

\* C21: the loaded callable has started no process before it is called; every
\* call starts one process of its own, so the processes started are as many as
\* the calls, and what a call returns comes from its own process, never from an
\* earlier call.
C21_ProcessPerCall ==
    /\ callable.t = "func"
    /\ Cardinality(Started) = Len(calls)
    /\ \A c \in 1..Len(calls) : OwnProcess(c)

\* two calls with the same arguments and the same stdin, the first process
\* succeeding and the second failing: the second call returns its own failure
C21_Witness ==
    /\ Len(calls) = 2
    /\ calls[1].args = calls[2].args
    /\ calls[1].stdinArg = calls[2].stdinArg
    /\ calls[1].out.ok /\ calls[1].err = NoErr
    /\ ~calls[2].out.ok /\ calls[2].err # NoErr
    /\ calls[1].spawned /\ calls[2].spawned

----------------------------------------------------------------------------
\* the contexts whose eval() was called are the first arguments, in order
EvalsInOrder ==
    /\ Len(stdin.evals) <= Len(rawContexts)
    /\ stdin.evals = SubSeq(rawContexts, 1, Len(stdin.evals))

\* the arguments whose context is, or is a child of, one of the first n
\* top-level contexts
ArgumentsUpTo(n) == {i \in 1..Len(rawContexts) : placed[i].top <= n}

\* C22: nothing is evaluated while arguments are parsed and no argument is
\* parsed once evaluation has begun; eval() is called on the contexts in the
\* order of their arguments, children of a list at the place of the list, so
\* that after n top-level contexts the calls are exactly the arguments of these
\* contexts and their children, and when loadContext returns a context every
\* argument's context was evaluated once, in command line order.
C22_ParsedThenEvaluatedInOrder ==
    /\ [](/\ pc = "parse" => stdin.evals = <<>> /\ evaluated = <<>>
          /\ EvalsInOrder
          /\ pc = "load" => Len(stdin.evals) = Cardinality(ArgumentsUpTo(next - 1))
          /\ pc = "done" => stdin.evals = rawContexts)
    /\ [][pc # "parse" => rawContexts' = rawContexts /\ contexts' = contexts]_vars

\* a file, then a keyed list with a child: three arguments evaluated in order
C22_Witness ==
    /\ pc = "done"
    /\ Len(rawContexts) = 3
    /\ placed[1].child = 0 /\ contexts[1].content.kind = "file"
    /\ placed[2].child = 0 /\ contexts[2].content.kind = "list"
    /\ placed[3] = [top |-> 2, child |-> 1]
    /\ stdin.evals = rawContexts

----------------------------------------------------------------------------
\* what loading the content of argument i alone gives; a list loads its children
IsLeaf(i) == NodeAt(i).content.kind # "list"
LoadOf(i) == load(NodeAt(i).content, stdin)

\* loadContext returned the error of a load, not the error of a value without keys
LoadFailed == pc = "failed" /\ returned.err.kind # "no top level keys"

\* C23: when loadContext returns the error of a load, the context that failed is
\* the last one eval() was called on, top-level or child of a list: every
\* argument before it loaded without error, no argument after it was evaluated
\* (no file of a later argument was read and standard input was read only by the
\* stdin arguments up to it), the error returned is the error of its load, and
\* no context is returned.
C23_FailFast ==
    LoadFailed =>
        /\ stdin.evals # <<>>
        /\ EvalsInOrder
        /\ IsLeaf(Len(stdin.evals))
        /\ LoadOf(Len(stdin.evals)).err = returned.err
        /\ \A j \in 1..(Len(stdin.evals) - 1) : IsLeaf(j) => LoadOf(j).err = NoErr
        /\ stdin.reads = Cardinality({j \in 1..Len(stdin.evals) :
                                          NodeAt(j).content.kind = "stdin"})
        /\ returned.context = Null

\* the first child of a list fails to load and the argument after it, a second
\* child, is never evaluated
C23_Witness ==
    /\ LoadFailed
    /\ Len(rawContexts) = 3
    /\ Len(stdin.evals) = 2
    /\ placed[2].child = 1
    /\ placed[3].child = 2
    /\ NodeAt(3).content.kind = "file"
    /\ NodeAt(3).content.filename \in DOMAIN Files

----------------------------------------------------------------------------
\* C24: a Function argument without a key is never a child of a list: after a
\* list opener it is a top-level context and the list's children do not hold it.
C24_FunctionNeverChild ==
    \A i \in 1..Len(rawContexts) :
        (NodeAt(i).content.kind = "function" /\ KeyOf(rawContexts[i]) = <<>>) =>
            placed[i].child = 0

----------------------------------------------------------------------------
\* the string arguments of a call, in order
StringArguments(args) ==
    LET strs == SelectSeq(args, IsStr) IN [i \in 1..Len(strs) |-> strs[i].s]

\* C25: every process a call starts has as argv the function string of the node
\* split on single spaces, followed by the string arguments of that call and
\* nothing else (nothing of an earlier call); the command the callable holds
\* stays the split function string whatever was called.
C25_ArgvIsCommandPlusArguments ==
    /\ callable.commandArray = Split(contexts[1].content.function, " ")
    /\ \A c \in 1..Len(calls) :
           calls[c].spawned =>
               calls[c].argv = Split(contexts[1].content.function, " ")
                                   \o StringArguments(calls[c].args)

----------------------------------------------------------------------------
\* the arguments that open a list, and the last of them
Openers == {i \in 1..Len(rawContexts) : IsOpener(rawContexts[i])}
LastOpener == CHOOSE i \in Openers : \A j \in Openers : j <= i

\* the list that is current after the arguments so far: the one the last opener
\* made, unless an argument with a key came after it
ExpectedCurrentList ==
    IF Openers # {} /\ \A j \in (LastOpener + 1)..Len(rawContexts) :
                           KeyOf(rawContexts[j]) = <<>>
    THEN placed[LastOpener].top
    ELSE 0

\* C26: after any argument sequence every list opener, with or without a key and
\* whether or not a list was open, has made a list that is a top-level context,
\* no child of a list is a list, and the current list is the one of the last
\* opener (none once an argument with a key has followed it); the parser is
\* still parsing, no error was raised.
C26_ListsNeverNested ==
    /\ pc = "parse"
    /\ returned = NoReturn
    /\ \A i \in 1..Len(rawContexts) :
           IsOpener(rawContexts[i]) <=> NodeAt(i).content.kind = "list"
    /\ \A i \in Openers : placed[i].child = 0
    /\ \A t \in 1..Len(contexts) :
           contexts[t].content.kind = "list" =>
               \A c \in 1..Len(contexts[t].content.contexts) :
                   contexts[t].content.contexts[c].content.kind # "list"
    /\ lc = ExpectedCurrentList

\* a keyed list, then an opener without a key, then a file: two top-level lists,
\* the file a child of the second
C26_Witness ==
    /\ Len(rawContexts) = 3
    /\ KeyOf(rawContexts[1]) # <<>> /\ IsOpener(rawContexts[1])
    /\ KeyOf(rawContexts[2]) = <<>> /\ IsOpener(rawContexts[2])
    /\ placed[2] = [top |-> 2, child |-> 0]
    /\ placed[3] = [top |-> 2, child |-> 1]
    /\ contexts[1].content.contexts = <<>>
    /\ lc = 2

----------------------------------------------------------------------------
\* the list openers without a key
UnkeyedOpeners == {i \in Openers : KeyOf(rawContexts[i]) = <<>>}

\* loadContext has returned
Returned == pc \in {"done", "failed"}

\* loadContext failed before it evaluated argument i
FailedBefore(i) == pc = "failed" /\ Len(stdin.evals) < i

\* loadContext failed at the list of argument i, whose value has no keys
NoTopLevelKeysAt(i) ==
    /\ pc = "failed"
    /\ returned.err = Error("no top level keys", rawContexts[i])
    /\ Len(evaluated) = placed[i].top
    /\ evaluated[placed[i].top].t = "list"

\* loadContext failed at a child of the list of argument i, which did not load
ChildFailed(i) ==
    /\ LoadFailed
    /\ Len(stdin.evals) > i
    /\ placed[Len(stdin.evals)].top = placed[i].top

\* C27 as claimed: with a list opener without a key among the arguments,
\* loadContext returns no context: it fails at the list with 'no top level keys'
\* unless it failed at an earlier argument.
C27_UnkeyedListFailsNoKeys ==
    \A i \in UnkeyedOpeners :
        Returned => FailedBefore(i) \/ NoTopLevelKeysAt(i)

\* C27: with a list opener without a key among the arguments, loadContext
\* returns no context: it fails at an earlier argument, or at a child of the
\* list that does not load, or at the list with 'no top level keys'.
C27_UnkeyedListNeverBuilds ==
    \A i \in UnkeyedOpeners :
        Returned => FailedBefore(i) \/ ChildFailed(i) \/ NoTopLevelKeysAt(i)

\* `..` with a child that loads: the list evaluates to a sequence of one element
\* and loadContext fails at it
C27_Witness ==
    /\ UnkeyedOpeners # {}
    /\ NoTopLevelKeysAt(1)
    /\ Len(stdin.evals) = 2
    /\ Len(evaluated[1].l) = 1

----------------------------------------------------------------------------
\* an argument with a colon and nothing before it: a colon, an empty key
HasEmptyKeyColon(arg) == HasPrefix(arg, <<":">>)

\* the list open when argument i is parsed, 0 for none: the list of the last
\* opener before i, if no argument with a key lies between
OpenersBefore(i) == {j \in Openers : j < i}
OpenListBefore(i) ==
    IF OpenersBefore(i) = {} THEN 0
    ELSE LET last == CHOOSE j \in OpenersBefore(i) : \A o \in OpenersBefore(i) : o <= j
         IN  IF \A j \in (last + 1)..(i - 1) : KeyOf(rawContexts[j]) = <<>>
             THEN placed[last].top ELSE 0

\* the context of argument i carries the format
CarriesFormat(i, format) ==
    CASE NodeAt(i).content.kind \in {"file", "text"} -> NodeAt(i).content.format = format
      [] NodeAt(i).content.kind = "function" ->
             NodeAt(i).content.rawInput = (format = textFormat)
      [] OTHER -> TRUE

----------------------------------------------------------------------------
\* the places of the tree: top-level context t as <<t, 0>>, child c of the list
\* t as <<t, c>>
Places ==
    {<<t, 0>> : t \in 1..Len(contexts)}
        \cup UNION {{<<t, c>> : c \in 1..Len(contexts[t].content.contexts)} :
                        t \in {u \in 1..Len(contexts) : contexts[u].content.kind = "list"}}

\* the context at a place
ContextAt(place) ==
    IF place[2] = 0 THEN contexts[place[1]]
    ELSE contexts[place[1]].content.contexts[place[2]]

\* the five content variants
ContentKinds == {"file", "stdin", "text", "function", "list"}

\* C29: whatever the arguments, the empty string and strings made only of ':',
\* '+', '-' and '.' included, the parser builds a context from each one and
\* raises no error: after n arguments the tree has exactly n contexts, top-level
\* contexts and children of lists together, every argument lies at a place of
\* its own, the context there records the argument as its original, and its
\* content is one of the five variants.
C29_OneContextPerArgument ==
    /\ pc = "parse"
    /\ returned = NoReturn
    /\ Len(placed) = Len(rawContexts)
    /\ Cardinality(Places) = Len(rawContexts)
    /\ \A i \in 1..Len(rawContexts) :
           /\ <<placed[i].top, placed[i].child>> \in Places
           /\ NodeAt(i).original = rawContexts[i]
           /\ NodeAt(i).content.kind \in ContentKinds
    /\ \A i, j \in 1..Len(rawContexts) : placed[i] = placed[j] => i = j

\* the empty argument, `..` and `+`: a file with an empty name, and a list whose
\* one child is an empty text
C29_Witness ==
    /\ rawContexts = << <<>>, <<".", ".">>, <<"+">> >>
    /\ Len(contexts) = 2
    /\ contexts[1].content = fileContent(yamlFormat, <<>>)
    /\ Len(contexts[2].content.contexts) = 1
    /\ contexts[2].content.contexts[1].original = <<"+">>
    /\ contexts[2].content.contexts[1].content = textContent(yamlFormat, <<>>)

----------------------------------------------------------------------------
\* run has opened or created nothing and written nothing
NothingOpened == files.opened = {} /\ output = <<>>

\* a step in which run opens or creates a file or writes to the output
OpensOrWrites == files'.opened # files.opened \/ output' # output

\* a step in which run returns an error
ReturnsError == pc # "failed" /\ pc' = "failed"

\* C30: when loadContext fails run returns its error and has opened no template,
\* created no output file and written nothing; a file is opened or created and
\* output is written only in steps after loadContext returned a context; and
\* when run returns an error after a step failed, it returns the error of that
\* step whatever the deferred closes of the template, the output file and the
\* encoder return: the error of a Close is returned only when run ends at the
\* end of the template stream with no error of its own.
C30_ContextBeforeFiles ==
    /\ [](returned.err.kind = "load" => pc = "failed" /\ NothingOpened)
    /\ [][/\ OpensOrWrites => pc \in {"done", "documents"} /\ returned.err = NoErr
          /\ (ReturnsError /\ pc = "done") =>
                 returned'.err.kind \in OpenOutcomes \ {"ok"}
          /\ (ReturnsError /\ pc = "documents" /\ template # <<>>) =>
                 returned'.err = Error(Head(template), <<>>)
          /\ (ReturnsError /\ pc = "documents" /\ template = <<>>) =>
                 returned'.err.kind = "close"]_vars

\* a document was written, the next one fails to render, and the closes of the
\* encoder, the output file and the template all fail: run returns the render
\* error
C30_Witness ==
    /\ pc = "failed"
    /\ returned.err = Error("render", <<>>)
    /\ files.opened = Closers
    /\ files.closeFailed = Closers
    /\ output # <<>>

====
